---- MODULE Spec2Model ----
(***************************************************************************)
(* Compact codec of alloy's eip7702 SignedAuthorization                    *)
(* (crates/storage/codecs/src/alloy/authorization_list.rs).                *)
(*                                                                         *)
(* A byte is a number in 0..255, a buffer is a sequence of bytes.  A U256  *)
(* is the sequence of its 32 base-256 digits, most significant first, an   *)
(* Address is its 20 bytes and a u64 the sequence of its 8 base-256        *)
(* digits, most significant first.  A panic of the Rust code (Buf::get_u8  *)
(* on an empty slice, a slice index out of range) is the result            *)
(* [status |-> "panic"].                                                   *)
(***************************************************************************)
EXTENDS Integers, Sequences, FiniteSets, TLC

\* ---------------------------------------------------------------- bounds
MaxPrefix == 1      \* bytes already in the sink before to_compact
MaxTail == 1        \* sibling bytes that follow the record in the source

\* ------------------------------------------------------ program constants
U256Bytes == 32
AddressBytes == 20
NonceBytes == 8

\* --------------------------------------------------------- input values
Fill(n, b) == [i \in 1..n |-> b]

U256Zero == Fill(U256Bytes, 0)
U256One == [i \in 1..U256Bytes |-> IF i = U256Bytes THEN 1 ELSE 0]
U256Max == Fill(U256Bytes, 255)
\* r and s of test_roundtrip_compact_authorization_list_item
TestR == <<31, 212, 116, 177, 249, 64, 76, 12, 93, 244, 59, 118, 32, 17, 159, 251,
           195, 161, 195, 249, 66, 199, 59, 110, 20, 233, 245, 82, 85, 237, 155, 29>>
TestS == <<41, 172, 162, 72, 19, 39, 154, 144, 30, 193, 59, 95, 123, 181, 51, 133,
           250, 31, 198, 39, 185, 70, 89, 34, 33, 65, 127, 247, 74, 73, 96, 13>>
TestAddress == <<218, 193, 127, 149, 141, 46, 229, 35, 162, 32,
                 98, 6, 153, 69, 151, 193, 61, 131, 30, 199>>

ParityValues == {0, 1}
RValues == {U256Zero, TestR, U256Max}
SValues == {U256Zero, TestS, U256Max}
ChainIdValues == {U256Zero, U256One, U256Max}
AddressValues == {Fill(AddressBytes, 0), TestAddress, Fill(AddressBytes, 255)}
NonceValues == {Fill(NonceBytes, 0),
                [i \in 1..NonceBytes |-> IF i = NonceBytes THEN 1 ELSE 0],
                Fill(NonceBytes, 255)}
TailBytes == {0, 171}
PokedParities == {2, 27, 255}

\* -------------------------------------------------- bytes::BufMut / Buf
put_u8(buf, b) == Append(buf, b)
\* bug: the slice is put in front of the bytes already in the sink
put_slice_front(buf, s) == s \o buf
put_slice(buf, s) == buf \o s
advance(buf, n) == SubSeq(buf, n + 1, Len(buf))

\* ruint: the little-endian byte image of a U256 and its inverse
\* bug: the big-endian image is written instead
as_be_slice(u) == u
as_le_slice(u) == [i \in 1..Len(u) |-> u[Len(u) + 1 - i]]
from_le_slice(sl) == [i \in 1..Len(sl) |-> sl[Len(sl) + 1 - i]]

\* ----------------------------------------- mirror struct Authorization
\* The derived codec of the mirror struct: the chain identifier with its
\* leading zero bytes elided, preceded by the number of bytes kept, then the
\* 20 address bytes, then the 8 nonce bytes.
RECURSIVE StripLeadingZeros(_)
StripLeadingZeros(u) ==
    IF u = <<>> THEN <<>>
    ELSE IF u[1] = 0 THEN StripLeadingZeros(Tail(u)) ELSE u

Authorization_to_compact(a, buf) ==
    LET kept == StripLeadingZeros(a.chain_id)
        b1 == put_u8(buf, Len(kept))
        b2 == put_slice(b1, kept)
        b3 == put_slice(b2, a.address)
        b4 == put_slice(b3, a.nonce)
    IN  [buf |-> b4, count |-> 1 + Len(kept) + AddressBytes + NonceBytes]

Authorization_from_compact(buf, len) ==
    IF Len(buf) < 1 THEN [status |-> "panic"]
    ELSE LET n == buf[1]
             b1 == advance(buf, 1)
         IN  IF n > U256Bytes \/ Len(b1) < n + AddressBytes + NonceBytes
             THEN [status |-> "panic"]
             ELSE LET b2 == advance(b1, n)
                      b3 == advance(b2, AddressBytes)
                  IN  [status |-> "ok",
                       value |-> [chain_id |-> Fill(U256Bytes - n, 0) \o SubSeq(b1, 1, n),
                                  address |-> SubSeq(b2, 1, AddressBytes),
                                  nonce |-> SubSeq(b3, 1, NonceBytes)],
                       rest |-> advance(b3, NonceBytes)]

\* ------------------------------------- impl Compact for AlloyAuthorization
AlloyAuthorization_to_compact(self, buf) ==
    LET authorization == [chain_id |-> self.chain_id,
                          address |-> self.address,
                          nonce |-> self.nonce]
    IN  Authorization_to_compact(authorization, buf)

\* bug: the slice handed in is returned instead of the shadowing remainder
AlloyAuthorization_from_compact_same_buf(buf, len) ==
    LET res == Authorization_from_compact(buf, len)
    IN  IF res.status = "panic" THEN res
        ELSE [status |-> "ok",
              value |-> [chain_id |-> res.value.chain_id,
                         address |-> res.value.address,
                         nonce |-> res.value.nonce],
              rest |-> buf]

AlloyAuthorization_from_compact(buf, len) ==
    LET res == Authorization_from_compact(buf, len)
    IN  IF res.status = "panic" THEN res
        ELSE [status |-> "ok",
              value |-> [chain_id |-> res.value.chain_id,
                         address |-> res.value.address,
                         nonce |-> res.value.nonce],
              rest |-> res.rest]

\* ------------------------------------ impl Compact for SignedAuthorization
\* SignedAuthorization::deref: the inner Authorization
deref(self) == [chain_id |-> self.chain_id, address |-> self.address, nonce |-> self.nonce]

\* bug: r and s are handed over in the wrong order
new_unchecked_s_r(auth, y_parity, r, s) ==
    [y_parity |-> y_parity, r |-> s, s |-> r,
     chain_id |-> auth.chain_id, address |-> auth.address, nonce |-> auth.nonce]

\* bug: the parity byte is narrowed to a flag
new_unchecked_flag(auth, y_parity, r, s) ==
    [y_parity |-> IF y_parity = 0 THEN 0 ELSE 1, r |-> r, s |-> s,
     chain_id |-> auth.chain_id, address |-> auth.address, nonce |-> auth.nonce]

\* SignedAuthorization::new_unchecked: stores its arguments, validates nothing
new_unchecked(auth, y_parity, r, s) ==
    [y_parity |-> y_parity, r |-> r, s |-> s,
     chain_id |-> auth.chain_id, address |-> auth.address, nonce |-> auth.nonce]

\* bug: the returned count forgets the 32 bytes of s
SignedAuthorization_to_compact_short_count(self, buf) ==
    LET b1 == put_u8(buf, self.y_parity)
        b2 == put_slice(b1, as_le_slice(self.r))
        b3 == put_slice(b2, as_le_slice(self.s))
        inner == AlloyAuthorization_to_compact(deref(self), b3)
    IN  [buf |-> inner.buf, count |-> 1 + 32 + inner.count]

\* bug: s is written before r
SignedAuthorization_to_compact_s_first(self, buf) ==
    LET b1 == put_u8(buf, self.y_parity)
        b2 == put_slice(b1, as_le_slice(self.s))
        b3 == put_slice(b2, as_le_slice(self.r))
        inner == AlloyAuthorization_to_compact(deref(self), b3)
    IN  [buf |-> inner.buf, count |-> 1 + 32 + 32 + inner.count]

SignedAuthorization_to_compact(self, buf) ==
    LET b1 == put_u8(buf, self.y_parity)
        b2 == put_slice(b1, as_le_slice(self.r))
        b3 == put_slice(b2, as_le_slice(self.s))
        inner == AlloyAuthorization_to_compact(deref(self), b3)
    IN  [buf |-> inner.buf, count |-> 1 + 32 + 32 + inner.count]

\* bug: a short slice is zero-filled up to the 65 fixed bytes and an empty
\* inner authorization instead of being rejected
SignedAuthorization_from_compact_zero_fill(buf, len) ==
    LET short == Len(buf) < 1 + 32 + 32
        padded == IF short THEN buf \o Fill(1 + 32 + 32 - Len(buf), 0) ELSE buf
        y_parity == padded[1]
        r == from_le_slice(SubSeq(padded, 2, 33))
        s == from_le_slice(SubSeq(padded, 34, 65))
        b3 == advance(padded, 65)
        res == IF short
               THEN [status |-> "ok", rest |-> <<>>,
                     value |-> [chain_id |-> Fill(U256Bytes, 0),
                                address |-> Fill(AddressBytes, 0),
                                nonce |-> Fill(NonceBytes, 0)]]
               ELSE AlloyAuthorization_from_compact(b3, len)
    IN  IF res.status = "panic"
        THEN [status |-> "panic", innerCalled |-> TRUE, innerBuf |-> b3, innerLen |-> len]
        ELSE [status |-> "ok", innerCalled |-> TRUE, innerBuf |-> b3, innerLen |-> len,
              value |-> new_unchecked(res.value, y_parity, r, s),
              rest |-> res.rest]

\* bug: the decoder claims the whole source and hands back no remainder
SignedAuthorization_from_compact_greedy(buf, len) ==
    IF Len(buf) < 1 + 32 + 32
    THEN [status |-> "panic", innerCalled |-> FALSE]
    ELSE LET b3 == advance(buf, 65)
             res == AlloyAuthorization_from_compact(b3, len)
         IN  IF res.status = "panic"
             THEN [status |-> "panic", innerCalled |-> TRUE,
                   innerBuf |-> b3, innerLen |-> len]
             ELSE [status |-> "ok", innerCalled |-> TRUE,
                   innerBuf |-> b3, innerLen |-> len,
                   value |-> new_unchecked(res.value, buf[1],
                                           from_le_slice(SubSeq(buf, 2, 33)),
                                           from_le_slice(SubSeq(buf, 34, 65))),
                   rest |-> <<>>]

SignedAuthorization_from_compact(buf, len) ==
    IF Len(buf) < 1 THEN [status |-> "panic", innerCalled |-> FALSE]
    ELSE LET y_parity == buf[1]
             b1 == advance(buf, 1)
         IN  IF Len(b1) < 32 THEN [status |-> "panic", innerCalled |-> FALSE]
             ELSE LET r == from_le_slice(SubSeq(b1, 1, 32))
                      b2 == advance(b1, 32)
                  IN  IF Len(b2) < 32 THEN [status |-> "panic", innerCalled |-> FALSE]
                      ELSE LET s == from_le_slice(SubSeq(b2, 1, 32))
                               b3 == advance(b2, 32)
                               res == AlloyAuthorization_from_compact(b3, len)
                           IN  IF res.status = "panic"
                               THEN [status |-> "panic", innerCalled |-> TRUE,
                                     innerBuf |-> b3, innerLen |-> len]
                               ELSE [status |-> "ok", innerCalled |-> TRUE,
                                     innerBuf |-> b3, innerLen |-> len,
                                     value |-> new_unchecked(res.value, y_parity, r, s),
                                     rest |-> res.rest]

\* ------------------------------------------------------------------ state
VARIABLES
    v,        \* the signed authorization handed to to_compact
    orig,     \* the value before any two of its fields were swapped
    swapped,  \* the pair of fields swapped, or <<>>
    sink0,    \* content of the sink before to_compact
    sink,     \* the sink
    ret,      \* byte count returned by to_compact
    src,      \* slice handed to from_compact
    len,      \* declared length handed to from_compact
    out,      \* result of from_compact
    pc        \* "start", "encoded", "loaded", "decoded"

vars == <<v, orig, swapped, sink0, sink, ret, src, len, out, pc>>

NoResult == [status |-> "none"]

Init ==
    /\ v \in [y_parity : ParityValues, r : RValues, s : SValues,
              chain_id : ChainIdValues, address : AddressValues, nonce : NonceValues]
    /\ orig = v
    /\ swapped = <<>>
    /\ \E k \in 0..MaxPrefix : sink0 = Fill(k, 90)
    /\ sink = sink0
    /\ ret = 0
    /\ src = <<>>
    /\ len = 0
    /\ out = NoResult
    /\ pc = "start"

SwapPairs == {<<"r", "s">>, <<"r", "chain_id">>, <<"s", "chain_id">>}

\* the value with its fields f and g exchanged (both hold a U256)
SwapFields(f, g) ==
    /\ pc = "start"
    /\ swapped = <<>>
    /\ v' = [v EXCEPT ![f] = v[g], ![g] = v[f]]
    /\ swapped' = <<f, g>>
    /\ UNCHANGED <<orig, sink0, sink, ret, src, len, out, pc>>

\* let len = authorization.to_compact(&mut compacted_authorization)
ToCompact ==
    /\ pc = "start"
    /\ LET res == SignedAuthorization_to_compact(v, sink)
       IN  /\ sink' = res.buf
           /\ ret' = res.count
    /\ pc' = "encoded"
    /\ UNCHANGED <<v, orig, swapped, sink0, src, len, out>>

\* the bytes to_compact appended to the sink
Written == SubSeq(sink, Len(sink0) + 1, Len(sink))

Tails == UNION {[1..k -> TailBytes] : k \in 0..MaxTail}
DeclaredLengths == {0, 64, ret, ret + 1}
CutPoints == {0, 1, 33, 64, 65, ret - 1}

\* the stored record followed by sibling bytes, with a declared length
LoadRecord(t, L) ==
    /\ pc = "encoded"
    /\ src' = Written \o t
    /\ len' = L
    /\ pc' = "loaded"
    /\ UNCHANGED <<v, orig, swapped, sink0, sink, ret, out>>

\* a truncated record: its first k bytes only
LoadTruncated(k, L) ==
    /\ pc = "encoded"
    /\ src' = SubSeq(Written, 1, k)
    /\ len' = L
    /\ pc' = "loaded"
    /\ UNCHANGED <<v, orig, swapped, sink0, sink, ret, out>>

\* the stored record with its first byte replaced by b
LoadPoked(b) ==
    /\ pc = "encoded"
    /\ src' = <<b>> \o Tail(Written)
    /\ len' = ret
    /\ pc' = "loaded"
    /\ UNCHANGED <<v, orig, swapped, sink0, sink, ret, out>>

\* SignedAuthorization::from_compact(&src, len)
FromCompact ==
    /\ pc = "loaded"
    /\ out' = SignedAuthorization_from_compact(src, len)
    /\ pc' = "decoded"
    /\ UNCHANGED <<v, orig, swapped, sink0, sink, ret, src, len>>

Next ==
    \/ \E p \in SwapPairs : SwapFields(p[1], p[2])
    \/ ToCompact
    \/ \E t \in Tails : \E L \in DeclaredLengths : LoadRecord(t, L)
    \/ \E k \in CutPoints : \E L \in {0, ret} : LoadTruncated(k, L)
    \/ \E b \in PokedParities : LoadPoked(b)
    \/ FromCompact

Spec == Init /\ [][Next]_vars

TypeOK ==
    /\ pc \in {"start", "encoded", "loaded", "decoded"}
    /\ ret \in Nat
    /\ len \in Nat
\* ----------------------------------------------------------- properties
\* bytes of the source that from_compact consumed
Consumed == Len(src) - Len(out.rest)
\* the source starts with the record to_compact wrote
StartsWithRecord == Len(src) >= ret /\ SubSeq(src, 1, ret) = Written
\* the inner authorization encoded on its own, into an empty sink
InnerAlone == AlloyAuthorization_to_compact(deref(v), <<>>)

\* C1: round trip. Encoding a signed authorization into an empty sink and
\* decoding the produced bytes with the returned byte count yields the same
\* value, field for field.
C1_RoundTrip ==
    (pc = "decoded" /\ sink0 = <<>> /\ src = sink /\ len = ret)
        => /\ out.status = "ok"
           /\ out.value.y_parity = v.y_parity
           /\ out.value.r = v.r
           /\ out.value.s = v.s
           /\ out.value.chain_id = v.chain_id
           /\ out.value.address = v.address
           /\ out.value.nonce = v.nonce

C1_Witness ==
    /\ pc = "decoded" /\ sink0 = <<>> /\ src = sink /\ len = ret
    /\ out.status = "ok"
    /\ v.y_parity = 1 /\ v.r = TestR /\ v.s = TestS
    /\ v.chain_id = U256Max
    /\ v.address = Fill(AddressBytes, 255)
    /\ v.nonce = Fill(NonceBytes, 255)

\* C2: length additivity. The byte count to_compact returns is 65 plus the
\* byte count of the inner authorization encoded on its own.
C2_LengthAdditivity ==
    pc # "start" => ret = 65 + InnerAlone.count

C2_Witness ==
    /\ pc = "encoded"
    /\ v.chain_id = U256One
    /\ ret = 65 + InnerAlone.count
    /\ InnerAlone.count > 0

\* C3: byte layout. The written bytes are the parity byte, the 32 bytes of r
\* least significant first, the 32 bytes of s least significant first, then
\* the encoding of the mirror tuple of the inner authorization; from_compact
\* reads the fields at those same positions.
C3_ByteLayout ==
    /\ pc # "start" =>
        /\ Len(Written) = 1 + 32 + 32 + Len(InnerAlone.buf)
        /\ Written[1] = v.y_parity
        /\ \A i \in 1..32 : Written[1 + i] = v.r[33 - i]
        /\ \A i \in 1..32 : Written[33 + i] = v.s[33 - i]
        /\ SubSeq(Written, 66, Len(Written)) = InnerAlone.buf
    /\ (pc = "decoded" /\ out.status = "ok") =>
        /\ out.value.y_parity = src[1]
        /\ \A i \in 1..32 : out.value.r[33 - i] = src[1 + i]
        /\ \A i \in 1..32 : out.value.s[33 - i] = src[33 + i]
        /\ LET inner == Authorization_from_compact(SubSeq(src, 66, Len(src)), len)
           IN  /\ out.value.chain_id = inner.value.chain_id
               /\ out.value.address = inner.value.address
               /\ out.value.nonce = inner.value.nonce

C3_Witness ==
    /\ pc = "decoded" /\ out.status = "ok"
    /\ v.r = TestR /\ v.s = U256Zero
    /\ Written[2] = 29 /\ Written[33] = 31
    /\ Written[65] = 0

\* C4: truncation. from_compact on a slice shorter than 65 bytes fails with a
\* bounds fault for any declared length; it returns no value.
C4_Truncation ==
    (pc = "decoded" /\ Len(src) < 65) => out.status = "panic"

C4_Witness ==
    /\ pc = "decoded" /\ Len(src) = 64 /\ len = ret
    /\ out.status = "panic"

\* C5 as stated: from_compact never reads bytes of the source beyond the
\* first len bytes as payload of the value, for every declared length.
C5_DeclaredLengthBound ==
    (pc = "decoded" /\ out.status = "ok") => Consumed <= len

\* C5 amended: when the source starts with an encoded record and the
\* declared length is not smaller than the byte count to_compact returned for
\* it, from_compact reads no byte beyond the first len bytes.
C5_DeclaredLengthBoundAmended ==
    (pc = "decoded" /\ out.status = "ok" /\ len >= ret) => Consumed <= len

C5_Witness ==
    /\ pc = "decoded" /\ out.status = "ok"
    /\ len = ret + 1 /\ Len(src) > ret
    /\ Consumed = ret

\* C6: exact consumption. Decoding the written bytes followed by sibling
\* bytes t, with the returned byte count, returns the value and exactly t.
C6_ExactConsumption ==
    (pc = "decoded" /\ len = ret /\ StartsWithRecord)
        => /\ out.status = "ok"
           /\ out.value = v
           /\ out.rest = SubSeq(src, ret + 1, Len(src))

C6_Witness ==
    /\ pc = "decoded" /\ len = ret /\ StartsWithRecord
    /\ out.status = "ok"
    /\ out.rest = <<171>>

\* C7: append exactness. After to_compact the sink is its former content
\* followed by the new bytes, the returned count is the number of bytes
\* appended, and the first appended byte is the parity, not a length.
C7_AppendExactness ==
    pc # "start" =>
        /\ Len(sink) = Len(sink0) + ret
        /\ SubSeq(sink, 1, Len(sink0)) = sink0
        /\ Written = SignedAuthorization_to_compact(v, <<>>).buf
        /\ Written[1] = v.y_parity

C7_Witness ==
    /\ pc = "encoded"
    /\ sink0 # <<>>
    /\ Len(sink) = Len(sink0) + ret
    /\ ret > 65

\* C8 as stated: decoding the encoding of the value with two fields swapped
\* never yields the value before the swap.
C8_FieldOrderSensitivity ==
    (pc = "decoded" /\ swapped # <<>> /\ src = Written /\ len = ret)
        => (out.status = "ok" /\ out.value # orig)

\* C8 amended: decoding the encoding of the value with two fields swapped
\* does not yield the value before the swap when the two fields held
\* different values.
C8_FieldOrderSensitivityAmended ==
    (pc = "decoded" /\ swapped # <<>> /\ src = Written /\ len = ret
        /\ orig[swapped[1]] # orig[swapped[2]])
        => (out.status = "ok" /\ out.value # orig)

C8_Witness ==
    /\ pc = "decoded" /\ swapped = <<"r", "s">> /\ src = Written /\ len = ret
    /\ orig.r = TestR /\ orig.s = TestS
    /\ out.status = "ok"
    /\ out.value.r = TestS /\ out.value.s = TestR

\* C9 as stated: the decoder of the inner authorization is invoked on the
\* slice 65 bytes into the source with declared length len - 65.
C9_InnerDeclaredLength ==
    (pc = "decoded" /\ out.innerCalled)
        => /\ out.innerBuf = advance(src, 65)
           /\ out.innerLen = len - 65

\* C10: unchecked reconstruction. With at least 65 bytes followed by a
\* well-formed inner authorization, from_compact succeeds whatever the first
\* byte is and returns exactly the parity byte, r and s it read.
C10_UncheckedReconstruction ==
    (/\ pc = "decoded"
     /\ Len(src) >= 65
     /\ AlloyAuthorization_from_compact(advance(src, 65), len).status = "ok")
        => /\ out.status = "ok"
           /\ out.value.y_parity = src[1]
           /\ out.value.r = from_le_slice(SubSeq(src, 2, 33))
           /\ out.value.s = from_le_slice(SubSeq(src, 34, 65))

C10_Witness ==
    /\ pc = "decoded" /\ out.status = "ok"
    /\ src[1] = 255
    /\ out.value.y_parity = 255
====
